---- MODULE Spec2Model ----
(***************************************************************************)
(* ViewList (packages/base/src/viewlist.ts): an ordered list of promises   *)
(* for views kept aligned with a list of models by a common-prefix diff.   *)
(* The model covers the object's fields, the promises its hooks return,    *)
(* the reactions registered on them with .then / Promise.all, and the      *)
(* microtask queue that runs those reactions.                              *)
(***************************************************************************)
EXTENDS Integers, Sequences, FiniteSets, TLC

\* ---------------------------------------------------------------- bounds
MaxLen == 2        \* longest model list passed to update()
MaxWork == 5       \* calls of the list's methods, views created and promises
                   \* rejected in one behaviour

\* model references; compared with !== only
ModelRefs == {"a", "b"}

ModelLists == UNION {[1..n -> ModelRefs] : n \in 0..MaxLen}

\* an optional argument of update(): left undefined, or another hook/context
Undefined == "undefined"
Override == "override"
Default == "default"

VARIABLES
  views,        \* this.views: list of promises for views (handle ids)
  _models,      \* this._models
  aliased,      \* TRUE iff this._models is the caller's array object itself
  callerArray,  \* the array object the caller passed to the last update()
  disposed,     \* TRUE iff this.views and this._models are null
  hstate,       \* state of each promise a creation hook produced: "pending",
                \* "resolved" (fulfilled) or "rejected"
  reactions,    \* reactions registered on each still pending promise
  queue,        \* the microtask queue
  alls,         \* the Promise.all aggregates built by update() and remove()
  createLog,    \* invocations of the creation hook, in order
  removeLog,    \* invocations of a removal hook, in order
  resolveLog,   \* the promises in the order they were fulfilled
  rejectLog,    \* the promises in the order they were rejected
  disposeLog,   \* the dispose() calls: the views each found, the removals and
                \* fulfilments made before it
  twin          \* a second ViewList given update([]) for every remove()

vars == <<views, _models, aliased, callerArray, disposed, hstate, reactions,
          queue, alls, createLog, removeLog, resolveLog, rejectLog, disposeLog, twin>>

\* ------------------------------------------------------------ the object
Min(x, y) == IF x < y THEN x ELSE y

\* The whole state as one record, so that each method is a function on it.
Sys ==
  [views |-> views, models |-> _models, aliased |-> aliased,
   callerArray |-> callerArray, disposed |-> disposed, hstate |-> hstate,
   reactions |-> reactions, queue |-> queue, alls |-> alls,
   createLog |-> createLog, removeLog |-> removeLog, resolveLog |-> resolveLog,
   rejectLog |-> rejectLog, disposeLog |-> disposeLog]

\* initialize(): empty lists, default hooks and context stored
Initialized ==
  [views |-> <<>>, models |-> <<>>, aliased |-> FALSE, callerArray |-> <<>>,
   disposed |-> FALSE, hstate |-> <<>>, reactions |-> <<>>, queue |-> <<>>,
   alls |-> <<>>, createLog |-> <<>>, removeLog |-> <<>>, resolveLog |-> <<>>,
   rejectLog |-> <<>>, disposeLog |-> <<>>]

\* this._models as read: the caller's array when the two are one object
ModelsOf(s) == IF s.aliased THEN s.callerArray ELSE s.models

\* x || dflt
OrDefault(x, dflt) == IF x = Undefined THEN dflt ELSE x

\* a reaction: t its kind, h the promise it is registered on, all the Promise.all
\* aggregate (and so the call) it belongs to, hook and ctx what a removal calls
NoJob == [t |-> "none", h |-> 0, all |-> 0, hook |-> Default, ctx |-> Default]

\* (a faulty Then, to test the properties against: a reaction on a pending promise is dropped)
Then_DropPending(s, h, job) ==
  IF s.hstate[h] = "resolved"
    THEN [s EXCEPT !.queue = Append(@, job)]
    ELSE s

\* (a faulty Then, to test the properties against: the reaction of a fulfilled promise jumps the queue)
Then_JumpQueue(s, h, job) ==
  IF s.hstate[h] = "resolved"
    THEN [s EXCEPT !.queue = <<job>> \o @]
    ELSE [s EXCEPT !.reactions[h] = Append(@, job)]

\* promise.then(job): a reaction kept on the promise in registration order while
\* it is pending, else a microtask at once
Then(s, h, job) ==
  IF s.hstate[h] = "pending"
    THEN [s EXCEPT !.reactions[h] = Append(@, job)]
    ELSE [s EXCEPT !.queue = Append(@, job)]

\* (a faulty ScanPrefix, to test the properties against: the scan compares the lengths and not the elements)
RECURSIVE ScanPrefix_LengthsOnly(_, _, _)
ScanPrefix_LengthsOnly(new_models, models, i) ==
  IF i < Len(new_models) /\ i < Len(models)
    THEN ScanPrefix_LengthsOnly(new_models, models, i + 1)
    ELSE i

\* the prefix scan of update(): i advances while both lists agree
RECURSIVE ScanPrefix(_, _, _)
ScanPrefix(new_models, models, i) ==
  IF i < Len(new_models)
    THEN IF i >= Len(models) \/ new_models[i + 1] # models[i + 1]
           THEN i
           ELSE ScanPrefix(new_models, models, i + 1)
    ELSE i

\* (a faulty SpliceKept, to test the properties against: the splice empties this.views)
SpliceKept_Nothing(vs, first_removed) == <<>>

\* this.views.splice(first_removed, this.views.length - first_removed)
SpliceKept(vs, first_removed) == SubSeq(vs, 1, Min(first_removed, Len(vs)))
SpliceRemoved(vs, first_removed) ==
  SubSeq(vs, Min(first_removed, Len(vs)) + 1, Len(vs))

\* (a faulty RegisterRemovals, to test the properties against: the loop stops one short of removed.length)
RECURSIVE RegisterRemovals_OneShort(_, _, _, _, _)
RegisterRemovals_OneShort(s, removed, j, remove, context) ==
  IF j + 1 < Len(removed)
    THEN RegisterRemovals_OneShort(
           Then(s, removed[j + 1],
                [NoJob EXCEPT !.t = "rm", !.h = removed[j + 1], !.all = Len(s.alls) + 1,
                              !.hook = remove, !.ctx = context]),
           removed, j + 1, remove, context)
    ELSE s

\* for (j = 0; j < removed.length; j++) removed[j].then(view => remove.call(context, view))
RECURSIVE RegisterRemovals(_, _, _, _, _)
RegisterRemovals(s, removed, j, remove, context) ==
  IF j < Len(removed)
    THEN RegisterRemovals(
           Then(s, removed[j + 1],
                [NoJob EXCEPT !.t = "rm", !.h = removed[j + 1], !.all = Len(s.alls) + 1,
                              !.hook = remove, !.ctx = context]),
           removed, j + 1, remove, context)
    ELSE s

\* (a faulty CreateViews, to test the properties against: the hook is given the position after the model's)
RECURSIVE CreateViews_IndexOff(_, _, _, _, _, _)
CreateViews_IndexOff(s, new_models, i, sync, create, context) ==
  IF i < Len(new_models)
    THEN LET h == Len(s.hstate) + 1
             s1 == [s EXCEPT
                      !.hstate = Append(@, IF sync[i + 1] THEN "resolved" ELSE "pending"),
                      !.reactions = Append(@, <<>>),
                      !.resolveLog = IF sync[i + 1] THEN Append(@, h) ELSE @,
                      !.createLog = Append(@, [model |-> new_models[i + 1], index |-> i + 1,
                                               h |-> h, hook |-> create, ctx |-> context,
                                               call |-> Len(s.alls) + 1]),
                      !.views = Append(@, h)]
         IN CreateViews_IndexOff(s1, new_models, i + 1, sync, create, context)
    ELSE s

\* for (; i < new_models.length; i++)
\*   this.views.push(Promise.resolve(create.call(context, new_models[i], i)))
\* sync[i + 1] tells whether the hook returned a view rather than a promise
RECURSIVE CreateViews(_, _, _, _, _, _)
CreateViews(s, new_models, i, sync, create, context) ==
  IF i < Len(new_models)
    THEN LET h == Len(s.hstate) + 1
             s1 == [s EXCEPT
                      !.hstate = Append(@, IF sync[i + 1] THEN "resolved" ELSE "pending"),
                      !.reactions = Append(@, <<>>),
                      !.resolveLog = IF sync[i + 1] THEN Append(@, h) ELSE @,
                      !.createLog = Append(@, [model |-> new_models[i + 1], index |-> i,
                                               h |-> h, hook |-> create, ctx |-> context,
                                               call |-> Len(s.alls) + 1]),
                      !.views = Append(@, h)]
         IN CreateViews(s1, new_models, i + 1, sync, create, context)
    ELSE s

\* (a faulty StoreModels, to test the properties against: the new list is not stored during the call)
StoreModels_Late(s, new_models) == [s EXCEPT !.callerArray = new_models]

\* (a faulty StoreModels, to test the properties against: the caller's array is stored, not a copy of it)
StoreModels_NoCopy(s, new_models) ==
  [s EXCEPT !.models = new_models, !.aliased = TRUE, !.callerArray = new_models]

\* new_models.slice(): a fresh array with the same elements
StoreModels(s, new_models) ==
  [s EXCEPT !.models = new_models, !.aliased = FALSE, !.callerArray = new_models]

\* Promise.all(elems): one reaction per element, in order; the aggregate is
\* fulfilled at once for an empty list, else when the last reaction has run.
\* arg, viewsBefore, modelsBefore and removed record the call the aggregate
\* belongs to: its argument, the two lists it found and the handles it spliced out;
\* resolvedCount, how many promises had been fulfilled when the call was made;
\* reason, the rejected element a rejected aggregate has its failure from.
RECURSIVE RegisterElements(_, _, _, _)
RegisterElements(s, elems, k, id) ==
  IF k < Len(elems)
    THEN RegisterElements(
           Then(s, elems[k + 1], [NoJob EXCEPT !.t = "el", !.h = elems[k + 1], !.all = id]),
           elems, k + 1, id)
    ELSE s

\* (a faulty PromiseAll, to test the properties against: the aggregate awaits the spliced out handles too)
PromiseAll_WithRemoved(s, elems, kind, arg, before, removed) ==
  LET id == Len(s.alls) + 1
      a == [kind |-> kind, elems |-> elems, remaining |-> Len(removed) + Len(elems),
            state |-> IF Len(removed) + Len(elems) = 0 THEN "resolved" ELSE "pending",
            reason |-> 0, thenDone |-> FALSE, arg |-> arg,
            viewsBefore |-> before.views, modelsBefore |-> ModelsOf(before),
            removed |-> removed, resolvedCount |-> Len(before.resolveLog)]
  IN RegisterElements([s EXCEPT !.alls = Append(@, a)], removed \o elems, 0, id)

PromiseAll(s, elems, kind, arg, before, removed) ==
  LET id == Len(s.alls) + 1
      a == [kind |-> kind, elems |-> elems, remaining |-> Len(elems),
            state |-> IF Len(elems) = 0 THEN "resolved" ELSE "pending",
            reason |-> 0, thenDone |-> FALSE, arg |-> arg,
            viewsBefore |-> before.views, modelsBefore |-> ModelsOf(before),
            removed |-> removed, resolvedCount |-> Len(before.resolveLog)]
  IN RegisterElements([s EXCEPT !.alls = Append(@, a)], elems, 0, id)

\* (a faulty FirstRemoved, to test the properties against: the scan is skipped, i stays 0)
FirstRemoved_NoScan(s, new_models) == 0

\* update(new_models, create_view, remove_view, context)
FirstRemoved(s, new_models) == ScanPrefix(new_models, ModelsOf(s), 0)

UpdateOp(s, new_models, create_view, remove_view, context_arg, sync) ==
  LET remove == OrDefault(remove_view, Default)
      create == OrDefault(create_view, Default)
      context == OrDefault(context_arg, Default)
      first_removed == FirstRemoved(s, new_models)
      removed == SpliceRemoved(s.views, first_removed)
      s1 == [s EXCEPT !.views = SpliceKept(@, first_removed)]
      s2 == RegisterRemovals(s1, removed, 0, remove, context)
      s3 == CreateViews(s2, new_models, first_removed, sync, create, context)
      s4 == StoreModels(s3, new_models)
  IN PromiseAll(s4, s4.views, "update", new_models, s, removed)

\* remove(): Promise.all(this.views).then(continuation)
RemoveOp(s) ==
  LET s1 == PromiseAll(s, s.views, "remove", <<>>, s, <<>>)
      id == Len(s1.alls)
  IN IF s1.alls[id].state = "resolved"
       THEN [s1 EXCEPT !.queue = Append(@, [NoJob EXCEPT !.t = "rmall", !.all = id])]
       ELSE s1

\* views.forEach(value => this._remove_view.call(this._handler_context, value))
RECURSIVE RemoveEach(_, _, _, _)
RemoveEach(log, vs, k, id) ==
  IF k < Len(vs)
    THEN RemoveEach(Append(log, [h |-> vs[k + 1], hook |-> Default, ctx |-> Default,
                                 call |-> id]),
                    vs, k + 1, id)
    ELSE log

\* (a faulty RemoveContinuation, to test the properties against: this.views is not reset)
RemoveContinuation_KeepViews(s, id) ==
  [s EXCEPT !.removeLog = RemoveEach(@, s.alls[id].elems, 0, id),
            !.models = <<>>,
            !.aliased = FALSE,
            !.disposed = FALSE,
            !.alls[id].thenDone = TRUE]

\* (a faulty RemoveContinuation, to test the properties against: this._models is not reset)
RemoveContinuation_KeepModels(s, id) ==
  [s EXCEPT !.removeLog = RemoveEach(@, s.alls[id].elems, 0, id),
            !.views = <<>>,
            !.disposed = FALSE,
            !.alls[id].thenDone = TRUE]

\* the continuation of remove(): hooks, then both lists replaced by []
RemoveContinuation(s, id) ==
  [s EXCEPT !.removeLog = RemoveEach(@, s.alls[id].elems, 0, id),
            !.views = <<>>,
            !.models = <<>>,
            !.aliased = FALSE,
            !.disposed = FALSE,
            !.alls[id].thenDone = TRUE]

\* (a faulty ElementResolved, to test the properties against: the first fulfilled element fulfils the aggregate)
ElementResolved_First(s, id) ==
  LET s1 == [s EXCEPT !.alls[id].remaining = @ - 1, !.alls[id].state = "resolved"]
  IN IF s.alls[id].state = "pending" /\ s.alls[id].kind = "remove"
       THEN [s1 EXCEPT !.queue = Append(@, [NoJob EXCEPT !.t = "rmall", !.all = id])]
       ELSE s1

\* one element of a Promise.all is fulfilled; the last one fulfils the aggregate,
\* which queues the continuation remove() chained on it
ElementResolved(s, id) ==
  LET s1 == [s EXCEPT !.alls[id].remaining = @ - 1]
  IN IF s1.alls[id].remaining = 0
       THEN LET s2 == [s1 EXCEPT !.alls[id].state = "resolved"]
            IN IF s2.alls[id].kind = "remove"
                 THEN [s2 EXCEPT !.queue = Append(@, [NoJob EXCEPT !.t = "rmall", !.all = id])]
                 ELSE s2
       ELSE s1

\* (a faulty ElementRejected, to test the properties against: a rejected element counts as a fulfilled one)
ElementRejected_Counted(s, id, h) == ElementResolved(s, id)

\* one element of a Promise.all is rejected: the first one rejects the aggregate
\* with its own failure, which the promise remove() chained on it passes on
ElementRejected(s, id, h) ==
  IF s.alls[id].state = "pending"
    THEN LET s1 == [s EXCEPT !.alls[id].state = "rejected", !.alls[id].reason = h]
         IN IF s1.alls[id].kind = "remove"
              THEN [s1 EXCEPT !.queue = Append(@, [NoJob EXCEPT !.t = "rmall", !.all = id])]
              ELSE s1
    ELSE s

\* remove.call(context, view)
RemovalReaction(s, job) ==
  [s EXCEPT !.removeLog = Append(@, [h |-> job.h, hook |-> job.hook, ctx |-> job.ctx,
                                     call |-> job.all])]

\* a reaction runs: a callback given to then() alone is called if the promise was
\* fulfilled and skipped if it was rejected
RunJob(s, job) ==
  CASE job.t = "rm" ->
         IF s.hstate[job.h] = "resolved" THEN RemovalReaction(s, job) ELSE s
    [] job.t = "el" ->
         IF s.hstate[job.h] = "resolved"
           THEN ElementResolved(s, job.all)
           ELSE ElementRejected(s, job.all, job.h)
    [] job.t = "rmall" ->
         IF s.alls[job.all].state = "resolved" THEN RemoveContinuation(s, job.all) ELSE s

\* the head of the microtask queue runs
RunHead(s) == RunJob([s EXCEPT !.queue = Tail(@)], Head(s.queue))

\* a pending promise a creation hook returned is fulfilled: its reactions queue up
ResolveOp(s, h) ==
  [s EXCEPT !.hstate[h] = "resolved",
            !.resolveLog = Append(@, h),
            !.queue = @ \o s.reactions[h],
            !.reactions[h] = <<>>]

\* the promise a creation hook returned is rejected: its reactions queue up
RejectOp(s, h) ==
  [s EXCEPT !.hstate[h] = "rejected",
            !.rejectLog = Append(@, h),
            !.queue = @ \o s.reactions[h],
            !.reactions[h] = <<>>]

\* update() when the creation hook raises for new_models[failAt]: the exception
\* leaves update() from inside the creation loop, after the splice, the removal
\* loop and the creations below failAt; nothing is pushed for failAt, this._models
\* is not written and Promise.all is not reached.  The call is recorded with the
\* kind "thrown", the hook's invocation with no handle (h = 0).
UpdateRaisesOp(s, new_models, create_view, remove_view, context_arg, sync, failAt) ==
  LET remove == OrDefault(remove_view, Default)
      create == OrDefault(create_view, Default)
      context == OrDefault(context_arg, Default)
      first_removed == FirstRemoved(s, new_models)
      removed == SpliceRemoved(s.views, first_removed)
      s1 == [s EXCEPT !.views = SpliceKept(@, first_removed)]
      s2 == RegisterRemovals(s1, removed, 0, remove, context)
      s3 == CreateViews(s2, SubSeq(new_models, 1, failAt), first_removed, sync, create,
                        context)
      a == [kind |-> "thrown", elems |-> <<>>, remaining |-> 0, state |-> "none",
            reason |-> 0, thenDone |-> FALSE, arg |-> new_models,
            viewsBefore |-> s.views, modelsBefore |-> ModelsOf(s),
            removed |-> removed, resolvedCount |-> Len(s.resolveLog)]
  IN [s3 EXCEPT !.createLog = Append(@, [model |-> new_models[failAt + 1], index |-> failAt,
                                         h |-> 0, hook |-> create, ctx |-> context,
                                         call |-> Len(s.alls) + 1]),
                !.alls = Append(@, a)]

\* (a faulty DisposeOp, to test the properties against: dispose() hands each view to the removal hook, as update([]) does)
DisposeOp_Removing(s) ==
  [RegisterRemovals(s, s.views, 0, Default, Default)
     EXCEPT !.views = <<>>, !.models = <<>>, !.aliased = FALSE, !.disposed = TRUE,
            !.disposeLog = Append(@, [views |-> s.views, removals |-> Len(s.removeLog),
                                      resolvedCount |-> Len(s.resolveLog)])]

\* dispose(): this.views = null; this._models = null
DisposeOp(s) ==
  [s EXCEPT !.views = <<>>, !.models = <<>>, !.aliased = FALSE, !.disposed = TRUE,
            !.disposeLog = Append(@, [views |-> s.views, removals |-> Len(s.removeLog),
                                      resolvedCount |-> Len(s.resolveLog)])]

\* ------------------------------------------------------------- the steps
Install(s) ==
  /\ views' = s.views
  /\ _models' = s.models
  /\ aliased' = s.aliased
  /\ callerArray' = s.callerArray
  /\ disposed' = s.disposed
  /\ hstate' = s.hstate
  /\ reactions' = s.reactions
  /\ queue' = s.queue
  /\ alls' = s.alls
  /\ createLog' = s.createLog
  /\ removeLog' = s.removeLog
  /\ resolveLog' = s.resolveLog
  /\ rejectLog' = s.rejectLog
  /\ disposeLog' = s.disposeLog

OptionalArgs == {Undefined, Override}

Init ==
  /\ views = Initialized.views
  /\ _models = Initialized.models
  /\ aliased = Initialized.aliased
  /\ callerArray = Initialized.callerArray
  /\ disposed = Initialized.disposed
  /\ hstate = Initialized.hstate
  /\ reactions = Initialized.reactions
  /\ queue = Initialized.queue
  /\ alls = Initialized.alls
  /\ createLog = Initialized.createLog
  /\ removeLog = Initialized.removeLog
  /\ resolveLog = Initialized.resolveLog
  /\ rejectLog = Initialized.rejectLog
  /\ disposeLog = Initialized.disposeLog
  /\ twin = Initialized

\* the creation hook answers each call with a view or with a promise for one
SyncChoices(s, new_models) ==
  [(FirstRemoved(s, new_models) + 1)..Len(new_models) -> BOOLEAN]

\* the bounds of the exploration
Work(s) == Len(s.alls) + Len(s.hstate) + Len(s.disposeLog) + Len(s.rejectLog)
CanCall(s) == ~s.disposed /\ Work(s) < MaxWork
CanCreate(s, new_models) ==
  Work(s) + Len(new_models) - FirstRemoved(s, new_models) < MaxWork

Update(new_models, create_view, remove_view, context_arg, sync) ==
  /\ CanCall(Sys)
  /\ CanCreate(Sys, new_models)
  /\ Install(UpdateOp(Sys, new_models, create_view, remove_view, context_arg, sync))
  /\ UNCHANGED twin

Remove ==
  /\ CanCall(Sys)
  /\ Install(RemoveOp(Sys))
  /\ UNCHANGED twin

Resolve(h) ==
  /\ hstate[h] = "pending"
  /\ Install(ResolveOp(Sys, h))
  /\ UNCHANGED twin

RunMicrotask ==
  /\ queue # <<>>
  /\ Install(RunHead(Sys))
  /\ UNCHANGED twin

Reject(h) ==
  /\ Work(Sys) < MaxWork
  /\ hstate[h] = "pending"
  /\ Install(RejectOp(Sys, h))
  /\ UNCHANGED twin

\* a creation hook that raises when it is called for the model RaisesFor: the
\* indices at which update(new_models) would call it for that model
RaisesFor == "b"
RaisesAt(s, new_models) ==
  {i \in FirstRemoved(s, new_models)..(Len(new_models) - 1) : new_models[i + 1] = RaisesFor}

UpdateRaises(new_models, sync, failAt) ==
  /\ CanCall(Sys)
  /\ CanCreate(Sys, new_models)
  /\ Install(UpdateRaisesOp(Sys, new_models, Undefined, Undefined, Undefined, sync, failAt))
  /\ UNCHANGED twin

\* update() with that hook: it raises at the first such index, if there is one
UpdateFailingHook ==
  /\ CanCall(Sys)
  /\ \E new_models \in ModelLists :
       /\ CanCreate(Sys, new_models)
       /\ LET R == RaisesAt(Sys, new_models)
          IN IF R = {}
               THEN \E sync \in SyncChoices(Sys, new_models) :
                      Update(new_models, Undefined, Undefined, Undefined, sync)
               ELSE LET failAt == CHOOSE i \in R : \A j \in R : i <= j
                    IN \E sync \in [(FirstRemoved(Sys, new_models) + 1)..failAt -> BOOLEAN] :
                         UpdateRaises(new_models, sync, failAt)

\* the caller empties, in place, the array it passed to update(): arr.length = 0
CallerMutates ==
  /\ callerArray # <<>>
  /\ callerArray' = <<>>
  /\ UNCHANGED <<views, _models, aliased, disposed, hstate, reactions, queue, alls,
                 createLog, removeLog, resolveLog, rejectLog, disposeLog, twin>>

Dispose ==
  /\ CanCall(Sys)
  /\ Install(DisposeOp(Sys))
  /\ UNCHANGED twin

UpdateDefault ==
  /\ CanCall(Sys)
  /\ \E new_models \in ModelLists :
       /\ CanCreate(Sys, new_models)
       /\ \E sync \in SyncChoices(Sys, new_models) :
            Update(new_models, Undefined, Undefined, Undefined, sync)

UpdateOverride ==
  /\ CanCall(Sys)
  /\ \E new_models \in ModelLists :
       /\ CanCreate(Sys, new_models)
       /\ \E sync \in SyncChoices(Sys, new_models) :
            Update(new_models, Override, Override, Override, sync)

ResolveSome == \E h \in DOMAIN hstate : Resolve(h)

RejectSome == \E h \in DOMAIN hstate : Reject(h)

\* callers that pass update() the list alone
Next ==
  \/ UpdateDefault
  \/ Remove
  \/ ResolveSome
  \/ RunMicrotask

Spec == Init /\ [][Next]_vars

\* callers that pass update() their own hooks and context
NextOverride ==
  \/ UpdateOverride
  \/ Remove
  \/ ResolveSome
  \/ RunMicrotask

SpecOverride == Init /\ [][NextOverride]_vars

\* callers that go on using the array they passed
NextCaller ==
  \/ UpdateDefault
  \/ Remove
  \/ ResolveSome
  \/ RunMicrotask
  \/ CallerMutates

SpecCaller == Init /\ [][NextCaller]_vars

\* callers that only update(), on an event loop that runs every queued microtask
NextUpdates ==
  \/ UpdateDefault
  \/ ResolveSome
  \/ RunMicrotask

SpecFair == Init /\ [][NextUpdates]_vars /\ WF_vars(RunMicrotask)

\* a creation hook that fails: it raises for one of the models, and the promises
\* it returns may be rejected
NextFail ==
  \/ UpdateFailingHook
  \/ Remove
  \/ ResolveSome
  \/ RejectSome
  \/ RunMicrotask

SpecFail == Init /\ [][NextFail]_vars

\* callers that may dispose() of the list at any point
NextDispose ==
  \/ UpdateDefault
  \/ Remove
  \/ ResolveSome
  \/ RunMicrotask
  \/ Dispose

SpecDispose == Init /\ [][NextDispose]_vars

\* Two ViewLists side by side, given the same calls and the same fulfilments, but
\* update([]) on the second for every remove() on the first.  Calls and
\* fulfilments are synchronous code; the microtasks run when that code is over.
RECURSIVE DrainAll(_)
DrainAll(s) == IF s.queue = <<>> THEN s ELSE DrainAll(RunHead(s))

\* the creation hook's answer: views at once, or promises
SyncAll(new_models, b) == [x \in 1..Len(new_models) |-> b]

\* the creation (model, index, call) a handle of s stands for
CreationOf(s, h) ==
  LET e == CHOOSE e \in {s.createLog[x] : x \in DOMAIN s.createLog} : e.h = h
  IN <<e.model, e.index, e.call>>

EqUpdate(new_models, b) ==
  /\ CanCall(Sys) /\ CanCreate(Sys, new_models)
  /\ CanCall(twin) /\ CanCreate(twin, new_models)
  /\ Install(UpdateOp(Sys, new_models, Undefined, Undefined, Undefined,
                      SyncAll(new_models, b)))
  /\ twin' = UpdateOp(twin, new_models, Undefined, Undefined, Undefined,
                      SyncAll(new_models, b))

EqRemove ==
  /\ CanCall(Sys) /\ CanCall(twin)
  /\ Install(RemoveOp(Sys))
  /\ twin' = UpdateOp(twin, <<>>, Undefined, Undefined, Undefined, <<>>)

EqResolve(h) ==
  LET inSys == h \in DOMAIN hstate
      inTwin == h \in DOMAIN twin.hstate
  IN /\ (inSys /\ hstate[h] = "pending") \/ (inTwin /\ twin.hstate[h] = "pending")
     /\ (inSys /\ inTwin) =>
          /\ CreationOf(Sys, h) = CreationOf(twin, h)
          /\ hstate[h] = twin.hstate[h]
     /\ Install(IF inSys /\ hstate[h] = "pending" THEN ResolveOp(Sys, h) ELSE Sys)
     /\ twin' = IF inTwin /\ twin.hstate[h] = "pending" THEN ResolveOp(twin, h) ELSE twin

EqDrain ==
  /\ queue # <<>> \/ twin.queue # <<>>
  /\ Install(DrainAll(Sys))
  /\ twin' = DrainAll(twin)

NextEq ==
  \/ \E new_models \in ModelLists, b \in BOOLEAN : EqUpdate(new_models, b)
  \/ EqRemove
  \/ \E h \in DOMAIN hstate \cup DOMAIN twin.hstate : EqResolve(h)
  \/ EqDrain

SpecEq == Init /\ [][NextEq]_vars

\* ------------------------------------------------------------ properties
Range(f) == {f[x] : x \in DOMAIN f}

\* the length of the longest common prefix of two lists
CommonPrefixLen(M, N) ==
  CHOOSE d \in 0..Min(Len(M), Len(N)) :
    /\ \A x \in 1..d : M[x] = N[x]
    /\ d = Min(Len(M), Len(N)) \/ M[d + 1] # N[d + 1]

IsProperPrefix(M, N) == Len(M) < Len(N) /\ SubSeq(N, 1, Len(M)) = M

IsUpdate(k) == alls[k].kind = "update"
IsRemove(k) == alls[k].kind = "remove"

\* what call k had created and what has been removed on its behalf
CreatedBy(k) == SelectSeq(createLog, LAMBDA e : e.call = k)
RemovedBy(k) == SelectSeq(removeLog, LAMBDA e : e.call = k)

\* the removal reactions of call k that have not run yet
RemovalsWaiting(s, k) ==
  {j \in Range(s.queue) : j.t = "rm" /\ j.all = k}
    \cup UNION {{j \in Range(s.reactions[h]) : j.t = "rm" /\ j.all = k} :
                  h \in DOMAIN s.reactions}

\* no reaction is waiting and no promise is pending
Quiescent(s) == s.queue = <<>> /\ \A h \in DOMAIN s.hstate : s.hstate[h] = "resolved"

\* a step that is a call of update()
IsUpdateStep == Len(alls') = Len(alls) + 1 /\ alls'[Len(alls')].kind = "update"

\* C1: update(N) calls the creation hook len(N)-d times and splices out exactly the
\* handles V[d..], d the length of the common prefix of the models and N; so an
\* append removes nothing, a truncation creates nothing, and a difference at index
\* 0 removes every old view and creates every new one.
C1_PrefixDiff ==
  \A k \in DOMAIN alls : IsUpdate(k) =>
    LET a == alls[k]
        d == CommonPrefixLen(a.modelsBefore, a.arg)
    IN /\ Len(CreatedBy(k)) = Len(a.arg) - d
       /\ Len(a.removed) = Len(a.viewsBefore) - d
       /\ a.removed = SubSeq(a.viewsBefore, d + 1, Len(a.viewsBefore))
       /\ {j.h : j \in RemovalsWaiting(Sys, k)} \cup {e.h : e \in Range(RemovedBy(k))}
            = Range(a.removed)
       /\ IsProperPrefix(a.modelsBefore, a.arg) => a.removed = <<>>
       /\ IsProperPrefix(a.arg, a.modelsBefore) => CreatedBy(k) = <<>>
       /\ d = 0 => a.removed = a.viewsBefore /\ Len(CreatedBy(k)) = Len(a.arg)

\* an update that keeps a prefix, removes a view and creates one
C1_Witness ==
  \E k \in DOMAIN alls :
    /\ IsUpdate(k)
    /\ CommonPrefixLen(alls[k].modelsBefore, alls[k].arg) >= 1
    /\ alls[k].removed # <<>>
    /\ CreatedBy(k) # <<>>

\* C2: update(N) leaves the handles below the divergence point in place: views[i]
\* is the same handle after the call, and the call neither creates nor removes at i.
C2_PrefixKept ==
  \A k \in DOMAIN alls : IsUpdate(k) =>
    LET a == alls[k]
        d == CommonPrefixLen(a.modelsBefore, a.arg)
    IN \A x \in 1..d :
         /\ x <= Len(a.elems) /\ x <= Len(a.viewsBefore)
         /\ a.elems[x] = a.viewsBefore[x]
         /\ \A e \in Range(CreatedBy(k)) : e.index # x - 1
         /\ a.viewsBefore[x] \notin Range(a.removed)
         /\ \A j \in RemovalsWaiting(Sys, k) : j.h # a.viewsBefore[x]
         /\ \A e \in Range(RemovedBy(k)) : e.h # a.viewsBefore[x]

\* a still pending view is kept by an update that replaces the view after it
C2_Witness ==
  \E k \in DOMAIN alls :
    /\ IsUpdate(k)
    /\ CommonPrefixLen(alls[k].modelsBefore, alls[k].arg) >= 1
    /\ alls[k].removed # <<>>
    /\ CreatedBy(k) # <<>>
    /\ hstate[alls[k].elems[1]] = "pending"
    /\ RemovedBy(k) # <<>>

\* C3: update(M) right after update(M) calls no hook, registers no removal, and
\* leaves views and models as they are.
C3_Idempotent ==
  [][(/\ IsUpdateStep
      /\ alls # <<>>
      /\ alls[Len(alls)].kind = "update"
      /\ alls[Len(alls)].arg = alls'[Len(alls')].arg
      /\ ModelsOf(Sys) = alls'[Len(alls')].arg)
     => /\ createLog' = createLog
        /\ removeLog' = removeLog
        /\ alls'[Len(alls')].removed = <<>>
        /\ RemovalsWaiting(Sys, Len(alls) + 1)' = {}
        /\ views' = views
        /\ ModelsOf(Sys)' = ModelsOf(Sys)]_vars

\* update(M) has been called twice in a row on a non-empty list
C3_Witness ==
  /\ Len(alls) >= 2
  /\ IsUpdate(Len(alls)) /\ IsUpdate(Len(alls) - 1)
  /\ alls[Len(alls)].arg = alls[Len(alls) - 1].arg
  /\ alls[Len(alls)].modelsBefore = alls[Len(alls)].arg
  /\ Len(alls[Len(alls)].arg) = 2
  /\ views = alls[Len(alls)].viewsBefore

\* the list of a consumer that appends a view when the creation hook is called
\* for it and deletes it when a removal hook receives it
ConsumerList ==
  LET created == [x \in DOMAIN createLog |-> createLog[x].h]
  IN SelectSeq(created, LAMBDA h : \A e \in Range(removeLog) : e.h # h)

OnlyUpdates == \A k \in DOMAIN alls : IsUpdate(k)

\* C4: after update() calls alone, once every callback has run, the consumer's
\* list is the list of views, in order.
C4_ConsumerOrder == (OnlyUpdates /\ Quiescent(Sys)) => ConsumerList = views

\* three updates, the later ones issued over pending views, have all settled
C4_Witness ==
  /\ OnlyUpdates /\ Quiescent(Sys)
  /\ Len(alls) = 3
  /\ removeLog # <<>>
  /\ views # <<>>
  /\ \E k \in DOMAIN alls : \E h \in Range(alls[k].viewsBefore) :
       \A x \in 1..alls[k].resolvedCount : resolveLog[x] # h

IsPrefixOf(p, q) == Len(p) <= Len(q) /\ SubSeq(q, 1, Len(p)) = p

\* C5: update(N) calls the creation hook during the call, once for each index from
\* d to len(N)-1 in ascending order with (N[i], i), and appends the handles to
\* views in that order; no deferred reaction runs meanwhile.
C5_SynchronousCreation ==
  [][IsUpdateStep =>
      LET N == alls'[Len(alls')].arg
          d == CommonPrefixLen(ModelsOf(Sys), N)
      IN /\ Len(createLog') = Len(createLog) + Len(N) - d
         /\ IsPrefixOf(createLog, createLog')
         /\ Len(views') = Len(N)
         /\ \A x \in 1..(Len(N) - d) :
              /\ Len(createLog) + x <= Len(createLog')
              /\ createLog'[Len(createLog) + x].model = N[d + x]
              /\ createLog'[Len(createLog) + x].index = d + x - 1
              /\ createLog'[Len(createLog) + x].h = views'[d + x]
         /\ removeLog' = removeLog
         /\ IsPrefixOf(queue, queue')]_vars

\* a later update has created two views at once
C5_Witness ==
  \E k \in DOMAIN alls :
    /\ k >= 2
    /\ IsUpdate(k)
    /\ Len(CreatedBy(k)) >= 2
    /\ CreatedBy(k)[1].index < CreatedBy(k)[2].index

\* where a handle stands in a list of handles
PosIn(seq, h) == CHOOSE x \in DOMAIN seq : seq[x] = h

\* the handle was fulfilled before call k was made
ResolvedAtCall(k, h) == \E x \in 1..alls[k].resolvedCount : resolveLog[x] = h

\* the reaction call k registered for g is queued before the one it registered
\* for h: both fulfilled at the call and g earlier in the list, or g fulfilled
\* at the call and h not, or both fulfilled later and g first
QueuedBefore(k, g, h) ==
  IF ResolvedAtCall(k, g)
    THEN ResolvedAtCall(k, h) => PosIn(alls[k].removed, g) < PosIn(alls[k].removed, h)
    ELSE /\ ~ResolvedAtCall(k, h)
         /\ g \in Range(resolveLog)
         /\ h \in Range(resolveLog) => PosIn(resolveLog, g) < PosIn(resolveLog, h)

IsRemoveContinuationStep(k) ==
  alls[k].kind = "remove" /\ ~alls[k].thenDone /\ alls'[k].thenDone

\* after an update: the two lists have one length and views[i] is the handle the
\* creation hook produced for models[i] at index i
Aligned ==
  (\E k \in DOMAIN alls : IsUpdate(k)) =>
    /\ Len(ModelsOf(Sys)) = Len(views)
    /\ \A x \in DOMAIN views :
         \E e \in Range(createLog) :
           e.h = views[x] /\ e.model = ModelsOf(Sys)[x] /\ e.index = x - 1

C8_UpdateResult ==
  \A k \in DOMAIN alls : IsUpdate(k) =>
    LET a == alls[k]
        d == CommonPrefixLen(a.modelsBefore, a.arg)
        settled == \A x \in DOMAIN a.elems : hstate[a.elems[x]] = "resolved"
    IN /\ a.state = "resolved" =>
            /\ settled
            /\ Len(a.elems) = Len(a.arg)
            /\ \A x \in DOMAIN a.elems :
                 \E e \in Range(createLog) :
                   e.h = a.elems[x] /\ e.model = a.arg[x] /\ e.index = x - 1
            /\ SubSeq(a.elems, 1, d) = SubSeq(a.viewsBefore, 1, d)
       /\ (settled /\ queue = <<>>) => a.state = "resolved"

\* the promise of an update that kept a still pending view and created one is
\* fulfilled
C8_Witness ==
  \E k \in DOMAIN alls :
    /\ IsUpdate(k)
    /\ alls[k].state = "resolved"
    /\ CommonPrefixLen(alls[k].modelsBefore, alls[k].arg) >= 1
    /\ CreatedBy(k) # <<>>
    /\ alls[k].elems[1] = alls[k].viewsBefore[1]
    /\ ~ResolvedAtCall(k, alls[k].elems[1])

\* C9: remove() on N views calls no hook until the N handles are fulfilled; its
\* continuation then calls the default hook with the default context once per
\* view, in list order, and leaves models and views empty.
C9_RemoveAll ==
  [][\A k \in DOMAIN alls : IsRemove(k) =>
       /\ RemovedBy(k)' # RemovedBy(k) => IsRemoveContinuationStep(k)
       /\ IsRemoveContinuationStep(k) =>
            /\ alls[k].elems = alls[k].viewsBefore
            /\ alls[k].state = "resolved"
            /\ \A x \in DOMAIN alls[k].elems : hstate[alls[k].elems[x]] = "resolved"
            /\ RemovedBy(k) = <<>>
            /\ Len(removeLog') = Len(removeLog) + Len(alls[k].viewsBefore)
            /\ IsPrefixOf(removeLog, removeLog')
            /\ \A x \in DOMAIN alls[k].viewsBefore :
                 /\ Len(removeLog) + x <= Len(removeLog')
                 /\ removeLog'[Len(removeLog) + x] =
                      [h |-> alls[k].viewsBefore[x], hook |-> Default, ctx |-> Default,
                       call |-> k]
            /\ views' = <<>>
            /\ ModelsOf(Sys)' = <<>>]_vars

\* remove() called on two views created with the caller's own hooks, one of them
\* pending, has completed
C9_Witness ==
  \E k \in DOMAIN alls :
    /\ IsRemove(k)
    /\ alls[k].thenDone
    /\ Len(alls[k].viewsBefore) = 2
    /\ Len(RemovedBy(k)) = 2
    /\ \A e \in Range(createLog) : e.hook = Override
    /\ \E h \in Range(alls[k].viewsBefore) : ~ResolvedAtCall(k, h)

\* the views of s and the removals made in s, each view named by its creation
ViewsAsCreated(s) == [x \in DOMAIN s.views |-> CreationOf(s, s.views[x])]
RemovalsAsCreated(s) ==
  {<<CreationOf(s, s.removeLog[x].h), s.removeLog[x].hook, s.removeLog[x].ctx>> :
     x \in DOMAIN s.removeLog}

\* C10: remove() has the effect of update([]) with the default hooks: after the
\* same calls and fulfilments, once all has settled, the same removals have been
\* made and models and views are the same.
C10_SameAsUpdateEmpty ==
  (Quiescent(Sys) /\ Quiescent(twin)) =>
    /\ ModelsOf(Sys) = ModelsOf(twin)
    /\ ViewsAsCreated(Sys) = ViewsAsCreated(twin)
    /\ RemovalsAsCreated(Sys) = RemovalsAsCreated(twin)

\* a step that is a call of dispose()
IsDisposeStep == Len(disposeLog') = Len(disposeLog) + 1

\* C11: dispose() invokes no removal hook and schedules none, however many views
\* the list holds and whether they are pending or fulfilled; it leaves views and
\* models absent.
C11_DisposeNoRemoval ==
  [][IsDisposeStep =>
      /\ removeLog' = removeLog
      /\ queue' = queue
      /\ reactions' = reactions
      /\ \A k \in DOMAIN alls : RemovalsWaiting(Sys, k)' = RemovalsWaiting(Sys, k)
      /\ alls' = alls
      /\ disposed'
      /\ views' = <<>> /\ _models' = <<>> /\ ~aliased']_vars

\* dispose() was called on two views, one fulfilled and one pending, and no
\* removal hook has been called
C11_Witness ==
  \E x \in DOMAIN disposeLog :
    LET d == disposeLog[x]
    IN /\ Len(d.views) = 2
       /\ \E y \in 1..d.resolvedCount : resolveLog[y] = d.views[1]
       /\ hstate[d.views[2]] = "pending"
       /\ disposed
       /\ removeLog = <<>>

SplicedOut(h) == \E k \in DOMAIN alls : IsUpdate(k) /\ h \in Range(alls[k].removed)

\* a removal hook has been called with the view of h on behalf of an update()
RemovedByUpdate(h) ==
  \E k \in DOMAIN alls : IsUpdate(k) /\ \E e \in Range(RemovedBy(k)) : e.h = h

\* C13: a handle spliced out by update() is in views at no later time, and if it
\* is fulfilled the removal hook is eventually called with its view, whatever calls
\* of update() are made before it is fulfilled: from some point on, every spliced
\* out handle that is fulfilled has been removed (being spliced out, fulfilled and
\* removed all last once they hold).
C13_NoCancellation ==
  /\ [](\A h \in DOMAIN hstate : SplicedOut(h) => h \notin Range(views))
  /\ <>[](\A h \in DOMAIN hstate :
             (SplicedOut(h) /\ hstate[h] = "resolved") => RemovedByUpdate(h))

\* a view spliced out while pending has been removed, though another update()
\* was called before it was fulfilled
C13_Witness ==
  \E k \in DOMAIN alls : \E h \in Range(alls[k].removed) :
    /\ IsUpdate(k)
    /\ \E k2 \in DOMAIN alls : k2 > k /\ IsUpdate(k2) /\ ~ResolvedAtCall(k2, h)
    /\ \E e \in Range(RemovedBy(k)) : e.h = h
    /\ h \notin Range(views)

\* the creation hook's invocation failed: it raised, or its promise was rejected
Failed(e) == e.h = 0 \/ hstate[e.h] = "rejected"

\* the aggregates that await h fail with the failure of a rejected element, and a
\* remove() that awaits h calls no removal hook
FailsWith(h) ==
  \A k \in DOMAIN alls : h \in Range(alls[k].elems) =>
    /\ alls[k].state # "resolved"
    /\ alls[k].state = "rejected" =>
         /\ alls[k].reason \in Range(alls[k].elems)
         /\ hstate[alls[k].reason] = "rejected"
    /\ queue = <<>> => alls[k].state = "rejected"
    /\ IsRemove(k) => RemovedBy(k) = <<>> /\ ~alls[k].thenDone

\* C14 as stated: whenever a creation hook raises or rejects, a handle pushed into
\* views by that update() carries the failure, the awaitables of update() and
\* remove() over it fail with it, and such a remove() calls no removal hook.
C14_FailureCarried ==
  \A x \in DOMAIN createLog :
    Failed(createLog[x]) =>
      /\ createLog[x].h \in DOMAIN hstate
      /\ hstate[createLog[x].h] = "rejected"
      /\ createLog[x].h \in Range(alls[createLog[x].call].elems)
      /\ FailsWith(createLog[x].h)

\* a step that is a call of update() left by an exception
IsThrowStep == Len(alls') = Len(alls) + 1 /\ alls'[Len(alls')].kind = "thrown"

\* C14 as amended: a handle whose promise is rejected stays rejected and is awaited
\* by the update() that pushed it, if that update() returned; every awaitable of
\* update() or remove() over it fails with the failure of a rejected element, and such a remove() calls no
\* removal hook and clears nothing.  When the creation hook raises, update() is
\* left at that index: views holds the views kept and those created below the
\* index, no handle is pushed for the index and none carries the failure, models
\* keeps its value and no awaitable is built.
C14_FailurePropagates ==
  /\ [](\A x \in DOMAIN createLog :
          (createLog[x].h # 0 /\ hstate[createLog[x].h] = "rejected") =>
            /\ IsUpdate(createLog[x].call) =>
                 createLog[x].h \in Range(alls[createLog[x].call].elems)
            /\ FailsWith(createLog[x].h))
  /\ [][\A h \in DOMAIN hstate : hstate[h] = "rejected" => hstate'[h] = "rejected"]_vars
  /\ [][IsThrowStep =>
         LET N == alls'[Len(alls')].arg
             d == CommonPrefixLen(ModelsOf(Sys), N)
             e == createLog'[Len(createLog')]
         IN /\ e.h = 0 /\ e.call = Len(alls') /\ e.index >= d
            /\ ModelsOf(Sys)' = ModelsOf(Sys)
            /\ views' = SubSeq(views, 1, Min(d, Len(views)))
                           \o [x \in 1..(e.index - d) |-> Len(hstate) + x]
            /\ Len(hstate') = Len(hstate) + e.index - d
            /\ \A h \in DOMAIN hstate' : h \notin DOMAIN hstate => hstate'[h] # "rejected"
            /\ \A j \in Range(queue') : j.t = "el" => j.all # Len(alls')
            /\ \A h \in DOMAIN reactions' : \A j \in Range(reactions'[h]) :
                 j.t = "el" => j.all # Len(alls')]_vars

\* a remove() over a view and a rejected promise has failed with that rejection,
\* after an update() the creation hook raised in
C14_Witness ==
  /\ \E k \in DOMAIN alls : alls[k].kind = "thrown"
  /\ \E k \in DOMAIN alls :
       /\ IsRemove(k)
       /\ alls[k].state = "rejected"
       /\ hstate[alls[k].reason] = "rejected"
       /\ queue = <<>>
       /\ views # <<>>

\* the reactions Promise.all registered for call k that have not run yet
ElementsWaiting(s, k) ==
  {j \in Range(s.queue) : j.t = "el" /\ j.all = k}
    \cup UNION {{j \in Range(s.reactions[h]) : j.t = "el" /\ j.all = k} :
                  h \in DOMAIN s.reactions}

\* C15: the promise update() returns awaits the handles left in views and no other:
\* none of its reactions is on a spliced out handle, and it is fulfilled as soon as
\* the reactions on the handles in views have run, whether the handles of the
\* removal set are fulfilled and removed, or not, or never.
C15_IndependentOfRemoved ==
  \A k \in DOMAIN alls : IsUpdate(k) =>
    LET a == alls[k]
    IN /\ Range(a.elems) \cap Range(a.removed) = {}
       /\ \A j \in ElementsWaiting(Sys, k) : j.h \in Range(a.elems)
       /\ (\A h \in Range(a.elems) : hstate[h] = "resolved"
              /\ \A j \in ElementsWaiting(Sys, k) : j.h # h)
            => a.state = "resolved"

\* the promise of an update() that kept a view is fulfilled while a view it
\* spliced out is pending and no removal hook has been called for the call
C15_Witness ==
  \E k \in DOMAIN alls :
    /\ IsUpdate(k)
    /\ alls[k].state = "resolved"
    /\ alls[k].elems # <<>>
    /\ ~ResolvedAtCall(k, alls[k].elems[1])
    /\ \E h \in Range(alls[k].removed) : hstate[h] = "pending"
    /\ RemovedBy(k) = <<>>

\* C16: whatever the interleaving of update() and remove() calls and fulfilments,
\* no view is given to a removal hook more than once.
C16_RemovedAtMostOnce ==
  \A x, y \in DOMAIN removeLog : x # y => removeLog[x].h # removeLog[y].h

\* C17: with update() and remove() calls only and every creation fulfilled, once
\* every reaction has run each view created is in views or has been given to a
\* removal hook.
C17_NoLeakedView ==
  Quiescent(Sys) =>
    \A x \in DOMAIN createLog :
      \/ createLog[x].h \in Range(views)
      \/ \E e \in Range(removeLog) : e.h = createLog[x].h

\* C18: no handle that is in views has been given to a removal hook.
C18_ViewsNotRemoved ==
  \A x \in DOMAIN views : \A e \in Range(removeLog) : e.h # views[x]

\* the continuation of a remove() has removed a view, and an update() called
\* after the remove() has its view in views
C18_Witness ==
  /\ views # <<>>
  /\ \E k \in DOMAIN alls :
       /\ IsRemove(k) /\ alls[k].thenDone /\ RemovedBy(k) # <<>>
       /\ \E k2 \in DOMAIN alls : k2 > k /\ IsUpdate(k2) /\ Range(views) \subseteq Range(alls[k2].elems)

\* C19: once dispose() has been called views and models stay absent, and no
\* removal hook is called afterwards with a view that was in views at the call.
C19_DisposeFinal ==
  \A x \in DOMAIN disposeLog :
    /\ disposed
    /\ \A y \in (disposeLog[x].removals + 1)..Len(removeLog) :
         removeLog[y].h \notin Range(disposeLog[x].views)

====
